---- MODULE Spec2Model ----
(***************************************************************************)
(* A model of the CAN message data model of src/src/message.rs: the        *)
(* identifier type Id (Short(u16) / Extended(u32)) with its validity and   *)
(* comparison functions, and the Message type (id, length, 8-byte backing  *)
(* array) with its constructor, set_len and the data / data_mut views.     *)
(*                                                                         *)
(* Four specifications share the variables:                                *)
(*   Spec      one Message: construction, then any sequence of set_len     *)
(*             calls and writes through data_mut;                          *)
(*   SpecNew   the constructors as functions of (id, payload);             *)
(*   SpecId    the Id functions applied to arguments drawn initially;      *)
(*   SpecPair  two Messages, each constructed and mutated independently.   *)
(*                                                                         *)
(* TLC's integers are 32-bit signed, so u32 inputs are drawn               *)
(* below 2^31 and `id & !MASK` is computed bit by bit without ever forming *)
(* the complemented mask.  The code never inspects a payload byte (it      *)
(* copies bytes and writes zeroes), so payload bytes are drawn from zero   *)
(* and one non-zero value.                                                 *)
(***************************************************************************)
EXTENDS Integers, Sequences, FiniteSets, TLC

VARIABLES
    msg,    \* the Message under test, or NoMsg before / without construction
    other,  \* a second, independent Message (SpecPair), else NoMsg
    prev,   \* the value of the operated-on Message before the last operation
    op,     \* the last operation called, with its arguments
    res     \* what the last operation returned

vars == <<msg, other, prev, op, res>>

----------------------------------------------------------------------------
(* Program constants *)

SHORT_MASK == 2047
EXTENDED_MASK == 536870911
CAPACITY == 8
U8_MAX == 255
U16_BITS == 16
U32_BITS == 32
U16_MAX == 65535
\* the largest u32 input TLC's integers hold: 2^31 - 1
U32_PROBE_MAX == 4 * EXTENDED_MASK + 3

(* Bounds of the model *)

MaxPayloadLen == 9
MaxLenArg == 9
ProbeSpan == 1
ProbeByte == 1
MaxPairLen == 2

----------------------------------------------------------------------------
(* Id *)

Short(v) == [tag |-> "Short", val |-> v]
Extended(v) == [tag |-> "Extended", val |-> v]

from_u16(input) == Short(input)
from_u32(input) == Extended(input)

\* a & !m on w-bit unsigned operands
RECURSIVE BitAndNot(_, _, _)
BitAndNot(a, m, w) ==
    IF w = 0 THEN 0
    ELSE (a % 2) * (1 - (m % 2)) + 2 * BitAndNot(a \div 2, m \div 2, w - 1)

\* u16 -> u32 `into()`: the 16 value bits, upper 16 bits zero
u16_into_u32(short) == short % (U16_MAX + 1)

as_extended(id) ==
    IF id.tag = "Short" THEN u16_into_u32(id.val) ELSE id.val

u32_cmp(x, y) ==
    IF x < y THEN "Less" ELSE IF x = y THEN "Equal" ELSE "Greater"

id_eq_derived(a, b) == a = b

id_eq(a, b) == as_extended(a) = as_extended(b)

\* Option<Ordering>: <<o>> is Some(o)
id_partial_cmp(a, b) == <<u32_cmp(as_extended(a), as_extended(b))>>

id_cmp(a, b) == u32_cmp(as_extended(a), as_extended(b))

is_valid_widened(id) == BitAndNot(as_extended(id), EXTENDED_MASK, U32_BITS) = 0

is_valid(id) ==
    IF id.tag = "Short"
    THEN BitAndNot(id.val, SHORT_MASK, U16_BITS) = 0
    ELSE BitAndNot(id.val, EXTENDED_MASK, U32_BITS) = 0

----------------------------------------------------------------------------
(* Message *)

NoMsg == [none |-> TRUE]

Slots == 0 .. (CAPACITY - 1)

Ok(m) == [err |-> "Ok", msg |-> m]
Err(e) == [err |-> e, msg |-> NoMsg]

\* data.len() as u8
as_u8(n) == n % (U8_MAX + 1)

new_id_first(id, data) ==
    IF is_valid(id) THEN
        IF Len(data) <= CAPACITY THEN
            Ok([id |-> id,
                length |-> as_u8(Len(data)),
                data |-> [i \in Slots |-> IF i < Len(data) THEN data[i + 1] ELSE 0]])
        ELSE Err("DataLength")
    ELSE Err("IdLength")

new_unchecked_id(id, data) ==
    IF Len(data) <= CAPACITY THEN
        Ok([id |-> id,
            length |-> as_u8(Len(data)),
            data |-> [i \in Slots |-> IF i < Len(data) THEN data[i + 1] ELSE 0]])
    ELSE Err("DataLength")

new_short_copy(id, data) ==
    IF Len(data) <= CAPACITY THEN
        IF is_valid(id) THEN
            Ok([id |-> id,
                length |-> as_u8(Len(data)),
                data |-> [i \in Slots |->
                             IF i + 1 < Len(data) THEN data[i + 1] ELSE 0]])
        ELSE Err("IdLength")
    ELSE Err("DataLength")

new(id, data) ==
    IF Len(data) <= CAPACITY THEN
        IF is_valid(id) THEN
            Ok([id |-> id,
                length |-> as_u8(Len(data)),
                data |-> [i \in Slots |-> IF i < Len(data) THEN data[i + 1] ELSE 0]])
        ELSE Err("IdLength")
    ELSE Err("DataLength")

with_short_id(id, data) == new(from_u16(id), data)
with_extended_id(id, data) == new(from_u32(id), data)

id(m) == m.id
len(m) == m.length

set_len_no_fill(m, length) ==
    IF length <= CAPACITY
    THEN Ok([m EXCEPT !.length = length])
    ELSE Err("DataLength")

set_len_clear_tail(m, length) ==
    IF length <= CAPACITY
    THEN Ok([m EXCEPT !.length = length,
                      !.data = [i \in Slots |-> IF i >= length THEN 0 ELSE m.data[i]]])
    ELSE Err("DataLength")

set_len_loose(m, length) ==
    IF length <= CAPACITY + 1
    THEN Ok([m EXCEPT !.length = length,
                      !.data = [i \in Slots |->
                                   IF m.length <= i /\ i < length THEN 0 ELSE m.data[i]]])
    ELSE Err("DataLength")

\* On Err the receiver is untouched; the caller keeps m.
set_len(m, length) ==
    IF length <= CAPACITY
    THEN Ok([m EXCEPT !.length = length,
                      !.data = [i \in Slots |->
                                   IF m.length <= i /\ i < length THEN 0 ELSE m.data[i]]])
    ELSE Err("DataLength")

\* &self.data[..length] as a sequence
data(m) == [k \in 1 .. m.length |-> m.data[k - 1]]

\* data_mut()[i] = b, for i inside the returned slice
data_mut_write(m, i, b) == [m EXCEPT !.data[i] = b]

message_eq(x, y) ==
    /\ id_eq(x.id, y.id)
    /\ x.length = y.length
    /\ x.data = y.data

----------------------------------------------------------------------------
(* Inputs *)

Bytes == {0, ProbeByte}

\* every byte sequence of length 0 .. n over Bytes
PayloadsUpTo(n) == UNION {[1 .. k -> Bytes] : k \in 0 .. n}

Payloads == PayloadsUpTo(MaxPayloadLen)

\* u8 arguments of set_len
LenArgs == (0 .. MaxLenArg) \cup {U8_MAX}

Around(c) == {c - k : k \in 0 .. ProbeSpan} \cup {c + k : k \in 0 .. ProbeSpan}

AllU16 == 0 .. U16_MAX

\* every single bit, and the neighbourhood of each boundary
ShortVals ==
    (0 .. ProbeSpan) \cup {2 ^ k : k \in 0 .. (U16_BITS - 1)}
                     \cup Around(SHORT_MASK + 1)
                     \cup {U16_MAX - k : k \in 0 .. ProbeSpan}

\* bit 31 is out of TLC's integers; bits 0 .. 30 are each probed
ExtendedVals ==
    ShortVals \cup {2 ^ k : k \in 0 .. (U32_BITS - 2)}
              \cup Around(U16_MAX + 1) \cup Around(EXTENDED_MASK + 1)
              \cup {U32_PROBE_MAX - k : k \in 0 .. ProbeSpan}

ProbeIds == {Short(v) : v \in ShortVals} \cup {Extended(v) : v \in ExtendedVals}

\* identifiers of the Message whose whole life is explored
LifeIds ==
    {Short(1), Short(SHORT_MASK + 1), Extended(EXTENDED_MASK), Extended(EXTENDED_MASK + 1)}

----------------------------------------------------------------------------
(* One Message: construction, then set_len and writes through data_mut *)

Init ==
    /\ msg = NoMsg
    /\ other = NoMsg
    /\ prev = NoMsg
    /\ op = [name |-> "none"]
    /\ res = "none"

Constructing == op.name = "none"
Live == msg # NoMsg

New(i, p) ==
    /\ Constructing
    /\ op' = [name |-> "new", id |-> i, payload |-> p]
    /\ LET r == new(i, p)
       IN  /\ res' = r.err
           /\ msg' = r.msg
    /\ UNCHANGED <<other, prev>>

WithShortId(v, p) ==
    /\ Constructing
    /\ op' = [name |-> "with_short_id", id |-> Short(v), payload |-> p]
    /\ LET r == with_short_id(v, p)
       IN  /\ res' = r.err
           /\ msg' = r.msg
    /\ UNCHANGED <<other, prev>>

WithExtendedId(v, p) ==
    /\ Constructing
    /\ op' = [name |-> "with_extended_id", id |-> Extended(v), payload |-> p]
    /\ LET r == with_extended_id(v, p)
       IN  /\ res' = r.err
           /\ msg' = r.msg
    /\ UNCHANGED <<other, prev>>

SetLen(n) ==
    /\ Live
    /\ op' = [name |-> "set_len", n |-> n]
    /\ LET r == set_len(msg, n)
       IN  /\ res' = r.err
           /\ msg' = IF r.err = "Ok" THEN r.msg ELSE msg
    /\ prev' = msg
    /\ UNCHANGED other

DataMutWrite(i, b) ==
    /\ Live
    /\ i < msg.length
    /\ op' = [name |-> "data_mut", i |-> i, b |-> b]
    /\ res' = "Ok"
    /\ msg' = data_mut_write(msg, i, b)
    /\ prev' = msg
    /\ UNCHANGED other

Construct ==
    \/ Constructing /\ \E p \in Payloads, i \in LifeIds : New(i, p)
    \/ Constructing /\ \E p \in Payloads, i \in LifeIds :
                          i.tag = "Short" /\ WithShortId(i.val, p)
    \/ Constructing /\ \E p \in Payloads, i \in LifeIds :
                          i.tag = "Extended" /\ WithExtendedId(i.val, p)

Mutate ==
    \/ \E n \in LenArgs : SetLen(n)
    \/ \E i \in Slots, b \in Bytes : DataMutWrite(i, b)

Next == Construct \/ Mutate

Spec == Init /\ [][Next]_vars

----------------------------------------------------------------------------
(* The constructors as functions of their arguments *)

NextNew ==
    \/ Constructing /\ \E p \in Payloads, i \in ProbeIds : New(i, p)
    \/ Constructing /\ \E p \in Payloads, v \in ShortVals : WithShortId(v, p)
    \/ Constructing /\ \E p \in Payloads, v \in ExtendedVals : WithExtendedId(v, p)

SpecNew == Init /\ [][NextNew]_vars

----------------------------------------------------------------------------
(* The Id functions *)

\* the arguments: every pair of probe identifiers, and every 16-bit value
\* as a Short beside the Extended of the same value
InitId ==
    /\ msg = NoMsg
    /\ other = NoMsg
    /\ prev = NoMsg
    /\ res = "none"
    /\ \/ op \in {[name |-> "none", a |-> x, b |-> y] : x, y \in ProbeIds}
       \/ op \in {[name |-> "none", a |-> Short(v), b |-> Extended(v)] : v \in AllU16}

AsExtended ==
    /\ Constructing
    /\ op' = [op EXCEPT !.name = "as_extended"]
    /\ res' = as_extended(op.a)
    /\ UNCHANGED <<msg, other, prev>>

IsValid ==
    /\ Constructing
    /\ op' = [op EXCEPT !.name = "is_valid"]
    /\ res' = is_valid(op.a)
    /\ UNCHANGED <<msg, other, prev>>

Eq ==
    /\ Constructing
    /\ op' = [op EXCEPT !.name = "eq"]
    /\ res' = id_eq(op.a, op.b)
    /\ UNCHANGED <<msg, other, prev>>

PartialCmp ==
    /\ Constructing
    /\ op' = [op EXCEPT !.name = "partial_cmp"]
    /\ res' = id_partial_cmp(op.a, op.b)
    /\ UNCHANGED <<msg, other, prev>>

Cmp ==
    /\ Constructing
    /\ op' = [op EXCEPT !.name = "cmp"]
    /\ res' = id_cmp(op.a, op.b)
    /\ UNCHANGED <<msg, other, prev>>

NextId == AsExtended \/ IsValid \/ Eq \/ PartialCmp \/ Cmp

SpecId == InitId /\ [][NextId]_vars

----------------------------------------------------------------------------
(* Two independent Messages *)

PairIds == {Short(1), Extended(1), Extended(SHORT_MASK + 1)}
PairPayloads == PayloadsUpTo(MaxPairLen)
PairLenArgs == (0 .. MaxPairLen) \cup {CAPACITY + 1}
Which == {"msg", "other"}

Target(w) == IF w = "msg" THEN msg ELSE other

Store(w, m) ==
    /\ msg' = IF w = "msg" THEN m ELSE msg
    /\ other' = IF w = "other" THEN m ELSE other

PairNew(w, i, p) ==
    /\ Target(w) = NoMsg
    /\ op' = [name |-> "new", on |-> w, id |-> i, payload |-> p]
    /\ LET r == new(i, p)
       IN  /\ res' = r.err
           /\ Store(w, r.msg)
    /\ prev' = NoMsg

PairSetLen(w, n) ==
    /\ Target(w) # NoMsg
    /\ op' = [name |-> "set_len", on |-> w, n |-> n]
    /\ LET r == set_len(Target(w), n)
       IN  /\ res' = r.err
           /\ Store(w, IF r.err = "Ok" THEN r.msg ELSE Target(w))
    /\ prev' = Target(w)

PairDataMutWrite(w, i, b) ==
    /\ Target(w) # NoMsg
    /\ i < Target(w).length
    /\ op' = [name |-> "data_mut", on |-> w, i |-> i, b |-> b]
    /\ res' = "Ok"
    /\ Store(w, data_mut_write(Target(w), i, b))
    /\ prev' = Target(w)

NextPair ==
    \/ \E w \in Which, i \in PairIds, p \in PairPayloads : PairNew(w, i, p)
    \/ \E w \in Which, n \in PairLenArgs : PairSetLen(w, n)
    \/ \E w \in Which, i \in Slots, b \in Bytes : PairDataMutWrite(w, i, b)

SpecPair == Init /\ [][NextPair]_vars

----------------------------------------------------------------------------
(* Properties *)

\* the numeric range of an identifier's variant: 11 bits, 29 bits
InRange(i) == IF i.tag = "Short" THEN i.val <= 2047 ELSE i.val <= 536870911

\* the identifier's value as an unsigned 32-bit number
Widen(i) == i.val

Constructors == {"new", "with_short_id", "with_extended_id"}

\* C1: in every Message reached from a successful constructor by set_len
\* calls and writes through data_mut, every byte of the backing array at an
\* index >= length is zero.
C1_ZeroTail ==
    Live => \A i \in Slots : i >= msg.length => msg.data[i] = 0

\* C2: every such Message has length <= 8 and an identifier inside the range
\* of its variant, so the data() / data_mut() slice stays inside the array.
C2_WellFormed ==
    Live =>
        /\ len(msg) <= 8
        /\ InRange(id(msg))
        /\ \A k \in DOMAIN data(msg) : (k - 1) \in DOMAIN msg.data

C2_Witness ==
    /\ Live
    /\ op.name = "set_len"
    /\ res = "Ok"
    /\ prev.length < 8
    /\ msg.length = 8
    /\ msg.id = Extended(536870911)

\* C3: new returns Err(DataLength) exactly when the payload is longer than 8
\* bytes, Err(IdLength) exactly when the payload fits and the id is out of
\* range, and Ok in every other case.
C3_NewErrors ==
    op.name = "new" =>
        /\ res \in {"Ok", "DataLength", "IdLength"}
        /\ res = "DataLength" <=> Len(op.payload) > 8
        /\ res = "IdLength" <=> (Len(op.payload) <= 8 /\ ~InRange(op.id))
        /\ res = "Ok" <=> (Len(op.payload) <= 8 /\ InRange(op.id))
        /\ res = "Ok" <=> msg # NoMsg

C3_Witness ==
    /\ op.name = "new"
    /\ Len(op.payload) > 8
    /\ ~InRange(op.id)
    /\ res = "DataLength"

\* C4: for a valid id and a payload of n <= 8 bytes the constructors succeed
\* with len() = n, data() = the payload, id() = the id and bytes n..8 zero;
\* with_short_id / with_extended_id return what new returns for Short(v) /
\* Extended(v).
C4_NewResult ==
    /\ (op.name \in Constructors /\ InRange(op.id) /\ Len(op.payload) <= 8) =>
        /\ res = "Ok"
        /\ msg # NoMsg
        /\ len(msg) = Len(op.payload)
        /\ data(msg) = op.payload
        /\ id(msg) = op.id
        /\ \A i \in Slots : i >= Len(op.payload) => msg.data[i] = 0
    /\ op.name = "with_short_id" =>
        /\ op.id.tag = "Short"
        /\ [err |-> res, msg |-> msg] = new(op.id, op.payload)
    /\ op.name = "with_extended_id" =>
        /\ op.id.tag = "Extended"
        /\ [err |-> res, msg |-> msg] = new(op.id, op.payload)

C4_Witness ==
    /\ op.name = "with_extended_id"
    /\ op.id = Extended(536870911)
    /\ Len(op.payload) = 8
    /\ op.payload[1] = 0
    /\ op.payload[8] # 0
    /\ res = "Ok"
    /\ msg.data[7] # 0

\* C5: set_len(n) with n > 8 returns Err(DataLength) and leaves id, length
\* and the whole backing array as they were.
C5_SetLenTooLong ==
    (op.name = "set_len" /\ op.n > 8) =>
        /\ res = "DataLength"
        /\ msg = prev
        /\ len(msg) = len(prev)
        /\ data(msg) = data(prev)
        /\ id(msg) = id(prev)

C5_Witness ==
    /\ op.name = "set_len"
    /\ op.n = 255
    /\ res = "DataLength"
    /\ msg.length = 3
    /\ msg.data[0] # 0
    /\ msg.data[5] # 0

\* C6: set_len(n) with old < n <= 8 succeeds; afterwards len() = n, data()
\* keeps its first old bytes and is zero on [old, n), whatever the backing
\* array held there.
C6_SetLenGrow ==
    (op.name = "set_len" /\ prev.length < op.n /\ op.n <= 8) =>
        /\ res = "Ok"
        /\ len(msg) = op.n
        /\ \A k \in 1 .. prev.length : data(msg)[k] = data(prev)[k]
        /\ \A k \in (prev.length + 1) .. op.n : data(msg)[k] = 0

C6_Witness ==
    /\ op.name = "set_len"
    /\ res = "Ok"
    /\ prev.length < op.n
    /\ prev.length > 0
    /\ prev.data[0] # 0
    /\ prev.data[prev.length] # 0
    /\ prev.data[op.n - 1] # 0

\* C7: equality and ordering of identifiers are those of their widened
\* values, across variants.
C7_IdOrder ==
    /\ op.name = "as_extended" => res = Widen(op.a)
    /\ op.name = "eq" => (res <=> Widen(op.a) = Widen(op.b))
    /\ op.name = "partial_cmp" =>
        /\ Len(res) = 1
        /\ res[1] = "Less" <=> Widen(op.a) < Widen(op.b)
        /\ res[1] = "Equal" <=> Widen(op.a) = Widen(op.b)
        /\ res[1] = "Greater" <=> Widen(op.a) > Widen(op.b)
    /\ op.name = "cmp" =>
        /\ res = "Less" <=> Widen(op.a) < Widen(op.b)
        /\ res = "Equal" <=> Widen(op.a) = Widen(op.b)
        /\ res = "Greater" <=> Widen(op.a) > Widen(op.b)

C7_Witness ==
    /\ op.name = "eq"
    /\ op.a = Short(2048)
    /\ op.b = Extended(2048)
    /\ res = TRUE

\* C8: Short(v) is valid iff v <= 0x7FF and Extended(v) is valid iff
\* v <= 0x1FFFFFFF; validity follows the variant, not the widened value.
C8_IdValid ==
    op.name = "is_valid" => (res <=> InRange(op.a))

C8_Witness ==
    /\ op.name = "is_valid"
    /\ op.a = Short(2048)
    /\ res = FALSE
    /\ is_valid(Extended(2048))
    /\ id_eq(Short(2048), Extended(2048))

\* C9: set_len(n) with n <= old succeeds and changes nothing but the
\* length: the id and all 8 bytes of the backing array stay as they were.
C9_SetLenShrink ==
    (op.name = "set_len" /\ op.n <= prev.length) =>
        /\ res = "Ok"
        /\ len(msg) = op.n
        /\ id(msg) = id(prev)
        /\ msg.data = prev.data

C9_Witness ==
    /\ op.name = "set_len"
    /\ res = "Ok"
    /\ op.n < prev.length
    /\ prev.data[op.n] # 0
    /\ msg.data[op.n] # 0
    /\ Len(data(msg)) = op.n

\* C10: two Messages with equal id(), equal len() and equal data() compare
\* equal.
C10_EqObservable ==
    (/\ msg # NoMsg
     /\ other # NoMsg
     /\ id_eq(id(msg), id(other))
     /\ len(msg) = len(other)
     /\ data(msg) = data(other)) => message_eq(msg, other)

====
